---- MODULE Spec2Model ----
(***************************************************************************)
(* Model of lib/winston-slack-webhook.js: the SlackWebHook transport, its  *)
(* exponentially decaying rate limiter, the discard notice, and the        *)
(* life of the https requests it starts.                                   *)
(*                                                                         *)
(* Numbers.  JavaScript numbers are modelled as exact values: a rational   *)
(* n/d, Infinity, NaN or undefined (an option that was not given).         *)
(* Rounding of doubles is not modelled.                                    *)
(*                                                                         *)
(* Time.  Dates are counted in ticks.  For a sink with a finite            *)
(* limitPerSecond r one tick is 1/r seconds, so that                       *)
(* exp(-limitLambda * seconds) over k ticks is the rational                *)
(* (B/(B+1))^k with B = limitPerSecond * limitWindowSeconds.  All the      *)
(* reads of `new Date()` inside one synchronous call see the same tick.    *)
(***************************************************************************)
EXTENDS Integers, Sequences, FiniteSets, TLC

\* ------------------------------------------------------------ bounds
\* the whole system (Spec): log calls, clock ticks, responses being received
MaxCalls == 3
MaxTime == 1
MaxResponding == 1
\* the sink alone, its requests left in flight (SinkSpec)
MaxSinkCalls == 6
MaxSinkTime == 3
\* a stream of log calls spaced exactly one tick apart (SteadySpec)
MaxSteadyTime == 3
\* log calls of every level and shape of metadata (PayloadSpec)
MaxPayloadCalls == 2
\* log calls while the clock is at most MaxLiveLogTime, then silence (LiveSpec)
MaxLiveCalls == 4
MaxLiveLogTime == 1

\* ------------------------------------------------- program constants
DefaultWindowSeconds == 30
HttpOk == 200

\* ------------------------------------------------------- JS numbers
RECURSIVE GCD(_, _)
GCD(a, b) == IF b = 0 THEN a ELSE GCD(b, a % b)

RECURSIVE Pow(_, _)
Pow(b, e) == IF e = 0 THEN 1 ELSE b * Pow(b, e - 1)

Rat(n, d) ==
  LET g == GCD(IF n < 0 THEN -n ELSE n, d)
  IN  [k |-> "num", n |-> n \div g, d |-> d \div g]
Num(n) == [k |-> "num", n |-> n, d |-> 1]
Infinity == [k |-> "inf", n |-> 1, d |-> 1]
NaN == [k |-> "nan", n |-> 0, d |-> 1]
Undefined == [k |-> "undefined", n |-> 0, d |-> 1]

IsZero(a) == a.k = "num" /\ a.n = 0

\* a || b : the first operand unless it is falsy (undefined, 0, NaN)
Falsy(a) == a.k \in {"undefined", "nan"} \/ IsZero(a)
OrElse(a, b) == IF Falsy(a) THEN b ELSE a

\* a * b for operands >= 0
Mul(a, b) ==
  IF a.k = "nan" \/ b.k = "nan" THEN NaN
  ELSE IF a.k = "inf" \/ b.k = "inf"
       THEN (IF IsZero(a) \/ IsZero(b) THEN NaN ELSE Infinity)
       ELSE Rat(a.n * b.n, a.d * b.d)

\* a + b for operands >= 0
Add(a, b) ==
  IF a.k = "nan" \/ b.k = "nan" THEN NaN
  ELSE IF a.k = "inf" \/ b.k = "inf" THEN Infinity
       ELSE Rat(a.n * b.d + b.n * a.d, a.d * b.d)

\* 1 / a for a > 0 or a = Infinity
Recip(a) ==
  IF a.k = "nan" THEN NaN
  ELSE IF a.k = "inf" THEN Num(0)
       ELSE IF a.n = 0 THEN Infinity ELSE Rat(a.d, a.n)

\* a > b ; every comparison with NaN is false
Gt(a, b) ==
  IF a.k = "nan" \/ b.k = "nan" THEN FALSE
  ELSE IF a.k = "inf" THEN b.k # "inf"
       ELSE IF b.k = "inf" THEN FALSE
            ELSE a.n * b.d > b.n * a.d

Ge(a, b) ==
  IF a.k = "nan" \/ b.k = "nan" THEN FALSE
  ELSE IF a.k = "inf" THEN TRUE
       ELSE IF b.k = "inf" THEN FALSE
            ELSE a.n * b.d >= b.n * a.d

Le(a, b) == Ge(b, a)
Lt(a, b) == Gt(b, a)

\* ------------------------------------------------------- JS values
JsNull == [t |-> "null", v |-> <<>>]
JsUndefined == [t |-> "undefined", v |-> <<>>]
JsString(s) == [t |-> "string", v |-> s]
JsError(message) == [t |-> "Error", v |-> message]

\* the callback `noop`; a caller's callback is named by its log call (1, 2, ..)
Noop == 0

\* ------------------------------------------------------------ state
VARIABLES
  options,       \* the argument of the constructor
  self,          \* the transport object (`this`): its limiter fields
  now,           \* the clock read by `new Date()`, in ticks
  reqs,          \* the https requests started so far, in the order started
  ncalls,        \* number of calls of log() so far
  cbCount,       \* cbCount[c]: times the callback of log call c was invoked
  lastCallback,  \* the callback invocation made by the latest step, if any
  uncaught       \* number of 'error' events emitted with no listener (thrown)

vars == <<options, self, now, reqs, ncalls, cbCount, lastCallback, uncaught>>

\* ------------------------------------------------------ constructor
RateOptions == {Undefined, Num(0), Num(1), Num(2), Infinity}
WindowOptions == {Undefined, Rat(1, 2), Num(1)}
Options == [limitPerSecond : RateOptions, limitWindowSeconds : WindowOptions]

\* options.formatter: not given, or a function of {level, message, meta}
NoFormatter == "null"
BracketFormatter == "function"
\* a formatter: the text '[' + level + '] ' + message
Format(formatter, level, msg, meta) == <<"[", level, "] ">> \o msg
\* the option objects that also choose a formatter and a channel
PayloadOptions ==
  [limitPerSecond : {Undefined}, limitWindowSeconds : {Undefined},
   formatter : {NoFormatter, BracketFormatter}, channel : {"", "#ops"}]
\* options.f || fallback, for the options that are not numbers
OptionOr(opts, f, fallback) == IF f \in DOMAIN opts THEN opts[f] ELSE fallback

\* Math.log(x) for x >= 1.  ln(n/d) of a rational above 1 is kept symbolic.
MathLog(x) ==
  IF x.k = "nan" THEN NaN
  ELSE IF x.k = "inf" THEN Infinity
       ELSE IF x.n = x.d THEN Num(0) ELSE [k |-> "log", n |-> x.n, d |-> x.d]

\* limitPerSecond * Math.log(..), expressed per tick: with one tick being
\* 1/limitPerSecond seconds, r * ln(n/d) per second is ln(n/d) per tick.
MulLog(r, l) ==
  IF r.k = "nan" \/ l.k = "nan" THEN NaN
  ELSE IF l.k = "log" THEN [k |-> "logPerTick", n |-> l.n, d |-> l.d]
       ELSE Mul(r, l)

\* Math.exp(-lambda * seconds) over `ticks` ticks
MathExpNeg(lambda, ticks) ==
  IF lambda.k = "nan" THEN NaN
  ELSE IF lambda.k = "logPerTick"
       THEN Rat(Pow(lambda.d, ticks), Pow(lambda.n, ticks))
       ELSE IF IsZero(lambda) THEN Num(1)
            ELSE IF ticks = 0 THEN NaN ELSE Num(0)

SlackWebHook(opts, date) ==
  LET limitPerSecond == OrElse(opts.limitPerSecond, Infinity)
      limitWindowSeconds == OrElse(opts.limitWindowSeconds, Num(DefaultWindowSeconds))
  IN  [ formatter |-> OptionOr(opts, "formatter", NoFormatter),
        channel |-> OptionOr(opts, "channel", ""),
        username |-> OptionOr(opts, "username", ""),
        iconEmoji |-> OptionOr(opts, "iconEmoji", ""),
        iconUrl |-> OptionOr(opts, "iconUrl", ""),
        unfurlLinks |-> OptionOr(opts, "unfurlLinks", FALSE),
        limitPerSecond |-> limitPerSecond,
        limitWindowSeconds |-> limitWindowSeconds,
        limitLambda |->
          MulLog(limitPerSecond,
                 MathLog(Add(Recip(Mul(limitPerSecond, limitWindowSeconds)), Num(1)))),
        limitSent |-> Num(0),
        limitLastUpdate |-> date,
        limitNumDiscarded |-> 0,
        numIncrements |-> 0 ]

\* ---------------------------------------------------------- limiter
\* variant: the score does not decay
getLimitSentAtDate_NoDecay(this, date) == this.limitSent

getLimitSentAtDate(this, date) ==
  Mul(this.limitSent, MathExpNeg(this.limitLambda, date - this.limitLastUpdate))

\* variants of the comparison: >=, a flipped <, and !(.. <= ..)
isRateLimitExceeded_Ge(this, date) ==
  Ge(getLimitSentAtDate(this, date), Mul(this.limitPerSecond, this.limitWindowSeconds))

isRateLimitExceeded_Lt(this, date) ==
  Lt(getLimitSentAtDate(this, date), Mul(this.limitPerSecond, this.limitWindowSeconds))

isRateLimitExceeded_NotLe(this, date) ==
  ~Le(getLimitSentAtDate(this, date), Mul(this.limitPerSecond, this.limitWindowSeconds))

\* variant: the limiter never reports exceeded
isRateLimitExceeded_Never(this, date) == FALSE

isRateLimitExceeded(this, date) ==
  Gt(getLimitSentAtDate(this, date), Mul(this.limitPerSecond, this.limitWindowSeconds))

\* variant: the stored score is incremented without being decayed first
incrementLimitSent_NoDecay(this, nowDate) ==
  [this EXCEPT !.limitSent = Add(this.limitSent, Num(1)),
               !.limitLastUpdate = nowDate]

\* variant: a send counts twice
incrementLimitSent_Twice(this, nowDate) ==
  [this EXCEPT !.limitSent = Add(getLimitSentAtDate(this, nowDate), Num(2)),
               !.limitLastUpdate = nowDate,
               !.numIncrements = @ + 1]

\* numIncrements is a history field: the calls of incrementLimitSent so far
incrementLimitSent(this, nowDate) ==
  [this EXCEPT !.limitSent = Add(getLimitSentAtDate(this, nowDate), Num(1)),
               !.limitLastUpdate = nowDate,
               !.numIncrements = @ + 1]

\* --------------------------------------------------------- delivery
LogLevels == {"info"}
EmptyMeta == <<>>
LogMetas == {EmptyMeta}
LogMessages == {<<"hello">>}

\* what the endpoint may answer: a status code and the body, as the chunks
\* in which it arrives (a string is a sequence of characters)
StatusCodes == {HttpOk, 500}
ResponseBodies == { <<>>, << <<"o">>, <<"k">> >> }

RECURSIVE Flatten(_)
Flatten(chunks) ==
  IF chunks = <<>> THEN <<>> ELSE Head(chunks) \o Flatten(Tail(chunks))

\* 'winston-slack-webhook discarded ' + limitNumDiscarded + ' messages'
DiscardText(n) == <<"winston-slack-webhook discarded ", ToString(n), " messages">>

\* 'https request fails. statusCode ' + res.statusCode + ', body ' + body
FailMessage(statusCode, body) ==
  <<"https request fails. statusCode ", ToString(statusCode), ", body ">> \o body

\* Metadata: the properties of `meta` in the order for..in visits them, each
\* with its key, its value and whether it is an own property of the object.
MetaEntry(key, value, own) == [key |-> key, value |-> value, own |-> own]
PayloadLevels == {"error", "warn", "info", "debug"}
PayloadMetas ==
  { EmptyMeta,
    <<MetaEntry("user", JsString(<<"alice">>), TRUE)>>,
    <<MetaEntry("user", JsString(<<"alice">>), TRUE),
      MetaEntry("code", [t |-> "number", v |-> <<"42">>], TRUE)>>,
    <<MetaEntry("toString", JsString(<<"inherited">>), FALSE)>>,
    <<MetaEntry("user", JsString(<<"bob">>), TRUE),
      MetaEntry("toString", JsString(<<"inherited">>), FALSE)>> }

\* util.inspect(value): a string in quotes, a number as its digits
UtilInspect(value) ==
  IF value.t = "string" THEN <<"'">> \o value.v \o <<"'">> ELSE value.v

\* Object.keys(meta): the own properties
RECURSIVE ObjectKeys(_)
ObjectKeys(meta) ==
  IF meta = <<>> THEN <<>>
  ELSE (IF Head(meta).own THEN <<Head(meta).key>> ELSE <<>>) \o ObjectKeys(Tail(meta))

\* variant: the cases of the switch have no break
LevelColor_Fallthrough(level) == "good"

\* switch (level): the color of the attachments
LevelColor(level) ==
  CASE level = "error" -> "danger"
    [] level = "warn" -> "warning"
    [] OTHER -> "good"

\* for (let key in meta) if (meta.hasOwnProperty(key)) attachments.push(..)
RECURSIVE Attachments(_, _)
Attachments(meta, color) ==
  IF meta = <<>> THEN <<>>
  ELSE (IF Head(meta).own
        THEN << [ fallback |-> UtilInspect(Head(meta).value),
                  text |-> <<Head(meta).key, ": ">> \o UtilInspect(Head(meta).value),
                  color |-> color ] >>
        ELSE <<>>) \o Attachments(Tail(meta), color)

\* the payload of sendSlackLog: `fields` are the fields the object has
buildPayload(this, level, msg, meta) ==
  LET text == IF this.formatter = BracketFormatter
              THEN Format(this.formatter, level, msg, meta)
              ELSE msg
      withAttachments == Len(ObjectKeys(meta)) > 0
  IN  [ fields |-> {"text", "channel", "username", "icon_emoji", "icon_url", "unfurl_links"}
                     \cup (IF withAttachments THEN {"attachments"} ELSE {}),
        text |-> text,
        channel |-> this.channel,
        username |-> this.username,
        icon_emoji |-> this.iconEmoji,
        icon_url |-> this.iconUrl,
        unfurl_links |-> this.unfurlLinks,
        attachments |-> IF withAttachments THEN Attachments(meta, LevelColor(level))
                        ELSE <<>> ]

\* the payload of a request that has finished
NoPayload ==
  [ fields |-> {}, text |-> <<>>, channel |-> "", username |-> "", icon_emoji |-> "",
    icon_url |-> "", unfurl_links |-> FALSE, attachments |-> <<>> ]

\* sendSlackLog: the request it starts (https.request .. req.end()), with the
\* completion handler `callback` bound to it
sendSlackLog(this, level, msg, meta, callback) ==
  [ level |-> level, msg |-> msg, meta |-> meta, callback |-> callback,
    payload |-> buildPayload(this, level, msg, meta),
    st |-> "inflight", statusCode |-> 0, sent |-> <<>>, chunks |-> <<>>, body |-> <<>> ]

\* ------------------------------------------------------------- log
\* log(level, msg, meta, callback) on transport `this` at instant `date`,
\* with `rs` the requests started before: the transport and the requests after.
\* variant: the discard notice is sent at once, while the limiter is exceeded
logDiscard_Notifies(this, rs) ==
  [ this |-> [this EXCEPT !.limitNumDiscarded = @ + 1],
    reqs |-> Append(rs, sendSlackLog(this, "warn", DiscardText(this.limitNumDiscarded + 1),
                                     EmptyMeta, Noop)) ]

\* variant: the message is dropped and not counted
logDiscard_NotCounted(this, rs) == [ this |-> this, reqs |-> rs ]

\* The limiter is exceeded: the message is counted and dropped.
logDiscard(this, rs) ==
  [ this |-> [this EXCEPT !.limitNumDiscarded = @ + 1], reqs |-> rs ]

\* variant: the discard counter is not reset after the notice
logAccept_KeepsCount(this, rs, date, level, msg, meta, callback) ==
  LET flush == this.limitNumDiscarded > 0
      notice == sendSlackLog(this, "warn", DiscardText(this.limitNumDiscarded),
                             EmptyMeta, Noop)
      rs1 == IF flush THEN Append(rs, notice) ELSE rs
      this1 == IF flush THEN incrementLimitSent(this, date) ELSE this
      rs2 == Append(rs1, sendSlackLog(this1, level, msg, meta, callback))
      this2 == incrementLimitSent(this1, date)
  IN  [ this |-> this2, reqs |-> rs2 ]

\* variant: the discard notice is sent twice
logAccept_NoticeTwice(this, rs, date, level, msg, meta, callback) ==
  LET flush == this.limitNumDiscarded > 0
      notice == sendSlackLog(this, "warn", DiscardText(this.limitNumDiscarded),
                             EmptyMeta, Noop)
      rs1 == IF flush THEN Append(Append(rs, notice), notice) ELSE rs
      this1 == IF flush
               THEN incrementLimitSent(
                      incrementLimitSent([this EXCEPT !.limitNumDiscarded = 0], date), date)
               ELSE this
      rs2 == Append(rs1, sendSlackLog(this1, level, msg, meta, callback))
      this2 == incrementLimitSent(this1, date)
  IN  [ this |-> this2, reqs |-> rs2 ]

\* variant: the discard counter is reset and no notice is sent
logAccept_SilentReset(this, rs, date, level, msg, meta, callback) ==
  LET this1 == [this EXCEPT !.limitNumDiscarded = 0]
      rs2 == Append(rs, sendSlackLog(this1, level, msg, meta, callback))
      this2 == incrementLimitSent(this1, date)
  IN  [ this |-> this2, reqs |-> rs2 ]

\* variant: the discard notice is sent without incrementLimitSent
logAccept_NoticeNotCounted(this, rs, date, level, msg, meta, callback) ==
  LET flush == this.limitNumDiscarded > 0
      notice == sendSlackLog(this, "warn", DiscardText(this.limitNumDiscarded),
                             EmptyMeta, Noop)
      rs1 == IF flush THEN Append(rs, notice) ELSE rs
      this1 == IF flush THEN [this EXCEPT !.limitNumDiscarded = 0] ELSE this
      rs2 == Append(rs1, sendSlackLog(this1, level, msg, meta, callback))
      this2 == incrementLimitSent(this1, date)
  IN  [ this |-> this2, reqs |-> rs2 ]

\* The limiter is not exceeded: the pending discard notice, then the message.
logAccept(this, rs, date, level, msg, meta, callback) ==
  LET flush == this.limitNumDiscarded > 0
      notice == sendSlackLog(this, "warn", DiscardText(this.limitNumDiscarded),
                             EmptyMeta, Noop)
      rs1 == IF flush THEN Append(rs, notice) ELSE rs
      this1 == IF flush
               THEN incrementLimitSent([this EXCEPT !.limitNumDiscarded = 0], date)
               ELSE this
      rs2 == Append(rs1, sendSlackLog(this1, level, msg, meta, callback))
      this2 == incrementLimitSent(this1, date)
  IN  [ this |-> this2, reqs |-> rs2 ]

log(this, rs, date, level, msg, meta, callback) ==
  IF isRateLimitExceeded(this, date)
  THEN logDiscard(this, rs)
  ELSE logAccept(this, rs, date, level, msg, meta, callback)

Responding == {i \in 1..Len(reqs) : reqs[i].st = "response"}

\* no callback was invoked
NoCallback == [callback |-> Noop, err |-> JsUndefined, res |-> JsUndefined]

\* ---------------------------------------------------------- actions
Init ==
  /\ options \in Options
  /\ now = 0
  /\ self = SlackWebHook(options, now)
  /\ reqs = <<>>
  /\ ncalls = 0
  /\ cbCount = <<>>
  /\ lastCallback = NoCallback
  /\ uncaught = 0

\* the clock advances by one tick
TickTo(maxTime) ==
  /\ now < maxTime
  /\ now' = now + 1
  /\ lastCallback' = NoCallback
  /\ UNCHANGED <<options, self, reqs, ncalls, cbCount, uncaught>>

\* the logger calls log(level, msg, meta, callback) with a callback of its own
LogWith(maxCalls, levels, metas) ==
  /\ ncalls < maxCalls
  /\ \E level \in levels, msg \in LogMessages, meta \in metas :
       LET r == log(self, reqs, now, level, msg, meta, ncalls + 1)
       IN  /\ self' = r.this
           /\ reqs' = r.reqs
  /\ ncalls' = ncalls + 1
  /\ cbCount' = Append(cbCount, 0)
  /\ lastCallback' = NoCallback
  /\ UNCHANGED <<options, now, uncaught>>

LogTo(maxCalls) == LogWith(maxCalls, LogLevels, LogMetas)

\* callback(err, res): noop does nothing
Invoke(callback, err, res) ==
  IF callback = Noop
  THEN /\ lastCallback' = NoCallback
       /\ UNCHANGED cbCount
  ELSE /\ cbCount' = [cbCount EXCEPT ![callback] = @ + 1]
       /\ lastCallback' = [callback |-> callback, err |-> err, res |-> res]

\* the response of request i begins: function (res) { var body = ''; .. }
onResponse(r, statusCode, chunks) ==
  [r EXCEPT !.st = "response", !.statusCode = statusCode,
            !.sent = chunks, !.chunks = chunks, !.body = <<>>]

Response(i) ==
  /\ reqs[i].st = "inflight"
  /\ Cardinality(Responding) < MaxResponding
  /\ \E statusCode \in StatusCodes, chunks \in ResponseBodies :
       reqs' = [reqs EXCEPT ![i] = onResponse(@, statusCode, chunks)]
  /\ lastCallback' = NoCallback
  /\ UNCHANGED <<options, self, now, ncalls, cbCount, uncaught>>

\* variant: body = chunk
onData_Overwrites(r) ==
  [r EXCEPT !.body = Head(r.chunks), !.chunks = Tail(@)]

\* res.on('data'): body += chunk
onData(r) ==
  [r EXCEPT !.body = @ \o Head(r.chunks), !.chunks = Tail(@)]

Data(i) ==
  /\ reqs[i].st = "response"
  /\ reqs[i].chunks # <<>>
  /\ reqs' = [reqs EXCEPT ![i] = onData(@)]
  /\ lastCallback' = NoCallback
  /\ UNCHANGED <<options, self, now, ncalls, cbCount, uncaught>>

\* res.on('end'): the arguments the callback is invoked with
onEnd(r) ==
  IF r.statusCode = HttpOk
  THEN [err |-> JsNull, res |-> JsString(r.body)]
  ELSE [err |-> JsError(FailMessage(r.statusCode, r.body)), res |-> JsUndefined]

\* a finished request: nothing refers to its payload or its response any more
Released(r, st) ==
  [r EXCEPT !.st = st, !.level = "", !.msg = <<>>, !.meta = <<>>, !.payload = NoPayload,
            !.statusCode = 0, !.sent = <<>>, !.chunks = <<>>, !.body = <<>>]

\* variant: a delivery that fails gives its message back to the limiter
End_Refunds(i) ==
  /\ reqs[i].st = "response"
  /\ reqs[i].chunks = <<>>
  /\ reqs' = [reqs EXCEPT ![i] = Released(@, "ended")]
  /\ LET a == onEnd(reqs[i]) IN Invoke(reqs[i].callback, a.err, a.res)
  /\ self' = IF reqs[i].statusCode = HttpOk THEN self
             ELSE [self EXCEPT !.limitNumDiscarded = @ + 1]
  /\ UNCHANGED <<options, now, ncalls, uncaught>>

End(i) ==
  /\ reqs[i].st = "response"
  /\ reqs[i].chunks = <<>>
  /\ reqs' = [reqs EXCEPT ![i] = Released(@, "ended")]
  /\ LET a == onEnd(reqs[i]) IN Invoke(reqs[i].callback, a.err, a.res)
  /\ UNCHANGED <<options, self, now, ncalls, uncaught>>

\* The connection fails before any response: the request emits 'error'.
\* sendSlackLog registers no 'error' listener on req, so the event is thrown
\* as an uncaught exception and the completion handler is never reached.
TransportError(i) ==
  /\ reqs[i].st = "inflight"
  /\ reqs' = [reqs EXCEPT ![i] = Released(@, "failed")]
  /\ uncaught' = uncaught + 1
  /\ lastCallback' = NoCallback
  /\ UNCHANGED <<options, self, now, ncalls, cbCount>>

Tick == TickTo(MaxTime)
Log == LogTo(MaxCalls)

Next ==
  \/ Tick
  \/ Log
  \/ \E i \in 1..Len(reqs) : Response(i)
  \/ \E i \in 1..Len(reqs) : Data(i)
  \/ \E i \in 1..Len(reqs) : End(i)
  \/ \E i \in 1..Len(reqs) : TransportError(i)

Spec == Init /\ [][Next]_vars

\* The sink alone: log calls and the clock, no delivery ever completing.
SinkTick == TickTo(MaxSinkTime)
SinkLog == LogTo(MaxSinkCalls)

SinkNext ==
  \/ SinkTick
  \/ SinkLog

SinkSpec == Init /\ [][SinkNext]_vars

\* A steady stream on a fresh sink: the first log call at any instant, every
\* later one exactly one tick (1/limitPerSecond seconds) after the send before.
SteadyTick ==
  /\ ncalls = 0 \/ now = self.limitLastUpdate
  /\ TickTo(MaxSteadyTime)

SteadyLog ==
  /\ ncalls = 0 \/ now = self.limitLastUpdate + 1
  /\ LogTo(MaxSteadyTime + 1)

SteadyNext ==
  \/ SteadyTick
  \/ SteadyLog

SteadySpec == Init /\ [][SteadyNext]_vars

\* Time keeps advancing: bursts of log calls early on, then two more ticks
\* with no call, the clock being always free to move on.
LiveTick == TickTo(MaxLiveLogTime + 2)
LiveLog == now <= MaxLiveLogTime /\ LogTo(MaxLiveCalls)
LiveNext == LiveTick \/ LiveLog
LiveSpec == Init /\ [][LiveNext]_vars /\ WF_vars(LiveTick)

\* Payloads: sinks with and without a formatter, log calls of every level
\* with every shape of metadata.
PayloadInit ==
  /\ options \in PayloadOptions
  /\ now = 0
  /\ self = SlackWebHook(options, now)
  /\ reqs = <<>>
  /\ ncalls = 0
  /\ cbCount = <<>>
  /\ lastCallback = NoCallback
  /\ uncaught = 0

PayloadLog == LogWith(MaxPayloadCalls, PayloadLevels, PayloadMetas)

PayloadSpec == PayloadInit /\ [][PayloadLog]_vars

\* ===================================================================
\* Properties
\* ===================================================================
\* limitPerSecond * limitWindowSeconds, the burst budget
Budget(this) == Mul(this.limitPerSecond, this.limitWindowSeconds)
Finite(this) == this.limitPerSecond.k = "num"

\* log calls by what became of them: an accepted call has a request that
\* carries its callback, a discarded call has none
AcceptedCalls == {reqs[i].callback : i \in 1..Len(reqs)} \ {Noop}
DiscardedCalls == (1..ncalls) \ AcceptedCalls
LastAccepted ==
  IF AcceptedCalls = {} THEN 0
  ELSE CHOOSE c \in AcceptedCalls : \A d \in AcceptedCalls : d <= c
Finished(r) == r.st \in {"ended", "failed"}

\* one step of the discard protocol, seen from a log call
C1_Step ==
  (ncalls' = ncalls + 1) =>
    LET k == ncalls - LastAccepted
        n == Len(reqs)
    IN  IF isRateLimitExceeded(self, now)
        THEN /\ reqs' = reqs
             /\ self'.limitNumDiscarded = k + 1
        ELSE /\ Len(reqs') = n + (IF k >= 1 THEN 2 ELSE 1)
             /\ SubSeq(reqs', 1, n) = reqs
             /\ reqs'[Len(reqs')].callback = ncalls + 1
             /\ reqs'[Len(reqs')].msg \in LogMessages
             /\ reqs'[Len(reqs')].st = "inflight"
             /\ k >= 1 =>
                  /\ reqs'[n + 1].level = "warn"
                  /\ reqs'[n + 1].msg = DiscardText(k)
                  /\ reqs'[n + 1].meta = EmptyMeta
                  /\ reqs'[n + 1].callback = Noop
                  /\ reqs'[n + 1].st = "inflight"
             /\ self'.limitNumDiscarded = 0

\* C1: after k >= 1 consecutive log calls that arrived while the limiter was
\* exceeded (none of which sends anything), the next log call that finds it
\* not exceeded starts exactly two sends, in this order: a 'warn' notice with
\* empty metadata and the noop handler whose text names k, then the real
\* message; and limitNumDiscarded is 0 when that call returns.
C1_DiscardNoticeThenMessage == [][C1_Step]_vars

\* three calls were discarded, then one was accepted: notice "3", then message
C1_Witness ==
  /\ ncalls >= 4
  /\ Len(reqs) >= 2
  /\ reqs[Len(reqs) - 1].callback = Noop
  /\ reqs[Len(reqs) - 1].msg = DiscardText(3)
  /\ reqs[Len(reqs)].callback = ncalls
  /\ self.limitNumDiscarded = 0

\* the frame of a log call made while the limiter is exceeded
C2_Step ==
  (ncalls' = ncalls + 1 /\ isRateLimitExceeded(self, now)) =>
    /\ self' = [self EXCEPT !.limitNumDiscarded = @ + 1]
    /\ reqs' = reqs
    /\ cbCount' = Append(cbCount, 0)
    /\ lastCallback' = NoCallback
    /\ uncaught' = uncaught

\* the callback of a discarded call has not been invoked
C2_NeverCalledBack == \A c \in DiscardedCalls : cbCount[c] = 0

\* C2: a log call made while the limiter is exceeded adds 1 to
\* limitNumDiscarded and changes nothing else: no request is started, limitSent
\* and limitLastUpdate stay, no callback is invoked; and the callback of a
\* discarded call is never invoked later either.
C2_DiscardOnlyCounts == [][C2_Step]_vars /\ []C2_NeverCalledBack

\* a call was discarded, and a later call's delivery has completed
C2_Witness ==
  \E c \in DiscardedCalls :
    \E i \in 1..Len(reqs) : reqs[i].callback > c /\ reqs[i].st = "ended"

\* C3: the callback of an accepted log call is invoked exactly once (by the
\* time its delivery has finished, and never twice), the callback of a
\* discarded call never; a discard notice's delivery invokes no caller's callback.
C3_CallbackExactlyOnce ==
  \A c \in 1..ncalls :
    IF c \in DiscardedCalls
    THEN cbCount[c] = 0
    ELSE /\ cbCount[c] <= 1
         /\ \A i \in 1..Len(reqs) :
              (reqs[i].callback = c /\ Finished(reqs[i])) => cbCount[c] = 1

\* C4: when the delivery of a real message fails at the connection level, the
\* caller's callback is invoked exactly once (with the error) and nothing is
\* thrown uncaught.
C4_TransportErrorIsReported ==
  \A i \in 1..Len(reqs) :
    (reqs[i].st = "failed" /\ reqs[i].callback # Noop) =>
      /\ cbCount[reqs[i].callback] = 1
      /\ uncaught = 0

\* the 'end' of the response of a real message
C5_Step ==
  \A i \in 1..Len(reqs) :
    (reqs[i].st = "response" /\ reqs'[i].st = "ended" /\ reqs[i].callback # Noop) =>
      LET c == reqs[i].callback
          full == Flatten(reqs[i].sent)
      IN  /\ cbCount' = [cbCount EXCEPT ![c] = @ + 1]
          /\ lastCallback' =
               IF reqs[i].statusCode = HttpOk
               THEN [callback |-> c, err |-> JsNull, res |-> JsString(full)]
               ELSE [callback |-> c,
                     err |-> JsError(FailMessage(reqs[i].statusCode, full)),
                     res |-> JsUndefined]
          /\ Len(reqs') = Len(reqs)
          /\ uncaught' = uncaught

\* C5: when the response of a real message ends, its callback is invoked once,
\* with (null, the whole body sent by the endpoint) if the status is 200 and
\* otherwise with an Error naming the status code and the whole body and no
\* result; no request is started (no retry) and nothing is thrown.
C5_OutcomeByStatusCode == [][C5_Step]_vars

\* a 500 answer with body "ok", received in two chunks, has just been reported
C5_Witness ==
  /\ lastCallback.callback # Noop
  /\ lastCallback.err = JsError(FailMessage(500, <<"o", "k">>))
  /\ lastCallback.res = JsUndefined

\* the steady stream after n sends, with B = bn/bd the budget and
\* q = B/(B+1) the decay over one interval: 1 - q^n
OneMinusDecay(B, n) ==
  Rat(Pow(B.n + B.d, n) - Pow(B.n, n), Pow(B.n + B.d, n))
\* (B+1)(1 - q^n)
AfterSend(B, n) ==
  Rat(Pow(B.n + B.d, n) - Pow(B.n, n), B.d * Pow(B.n + B.d, n - 1))
\* B(1 - q^n)
BeforeNextSend(B, n) == Mul(B, OneMinusDecay(B, n))

\* C6 as claimed: during a steady stream at exactly limitPerSecond on a fresh
\* sink with a finite rate, the projected score never exceeds the budget, the
\* instant right after a send included.
C6_NeverAboveBudget ==
  (Finite(self) /\ ncalls >= 1) =>
    ~Gt(getLimitSentAtDate(self, now), Budget(self))

\* C6 as amended: in such a stream every call is accepted and sends once;
\* right after the n-th send the projected score is (B+1)(1 - q^n), which is
\* below B + 1 and may be above B; one interval later, the instant of the next
\* send, it is B(1 - q^n), which is below B and approaches B as n grows.
C6_SteadyScore ==
  (Finite(self) /\ ncalls >= 1) =>
    LET B == Budget(self)
        p == getLimitSentAtDate(self, now)
    IN  /\ Len(reqs) = ncalls
        /\ now \in {self.limitLastUpdate, self.limitLastUpdate + 1}
        /\ now = self.limitLastUpdate =>
             /\ p = AfterSend(B, ncalls)
             /\ Lt(p, Add(B, Num(1)))
        /\ now = self.limitLastUpdate + 1 =>
             /\ p = BeforeNextSend(B, ncalls)
             /\ Lt(p, B)

\* right after the second send of a steady stream the score is above the budget
C6_Witness ==
  /\ Finite(self)
  /\ ncalls >= 2
  /\ now = self.limitLastUpdate
  /\ Gt(getLimitSentAtDate(self, now), Budget(self))

\* C7: a sink configured with limitPerSecond = 0 accepts at most its first
\* log call.
C7_ZeroRateAcceptsOnlyFirst ==
  IsZero(options.limitPerSecond) =>
    \A i \in 1..Len(reqs) : reqs[i].callback \in {Noop, 1}

\* C8: with limitPerSecond = Infinity the limiter is never exceeded: every
\* message is sent, nothing is discarded and no discard notice is sent.
C8_InfiniteRateNeverLimits ==
  self.limitPerSecond = Infinity =>
    /\ ~isRateLimitExceeded(self, now)
    /\ self.limitNumDiscarded = 0
    /\ Len(reqs) = ncalls
    /\ \A i \in 1..Len(reqs) : reqs[i].callback = i

\* several messages sent at different instants through an unlimited sink
C8_Witness ==
  /\ options.limitPerSecond = Infinity
  /\ ncalls >= 3
  /\ Len(reqs) = ncalls
  /\ now >= 1
  /\ self.limitLastUpdate >= 1

\* the decision of a log call against the projected score
C9_Step ==
  (ncalls' = ncalls + 1) =>
    LET p == getLimitSentAtDate(self, now)
        B == Budget(self)
        accepted == Len(reqs') > Len(reqs)
    IN  /\ accepted <=> ~Gt(p, B)
        /\ p = B => accepted
        /\ (options.limitPerSecond = Num(1) /\ options.limitWindowSeconds = Num(1)) =>
             /\ ncalls = 0 =>
                  /\ accepted
                  /\ ~isRateLimitExceeded(self', now')
             /\ (ncalls = 1 /\ now = self.limitLastUpdate) =>
                  /\ accepted
                  /\ isRateLimitExceeded(self', now')

\* C9: a log call is discarded iff the score projected to the instant of the
\* call is strictly above the budget, so a score equal to the budget is
\* accepted; with limitPerSecond = 1 and limitWindowSeconds = 1 the limiter is
\* not exceeded after one send at an instant and is exceeded after two sends
\* at the same instant.
C9_StrictComparison == [][C9_Step]_vars

\* budget 1, two sends at one instant: the score is 2 and the limiter exceeded
C9_Witness ==
  /\ options.limitPerSecond = Num(1)
  /\ options.limitWindowSeconds = Num(1)
  /\ ncalls = 2
  /\ Len(reqs) = 2
  /\ now = self.limitLastUpdate
  /\ self.limitSent = Num(2)
  /\ isRateLimitExceeded(self, now)

RECURSIVE OwnEntries(_)
OwnEntries(meta) ==
  IF meta = <<>> THEN <<>>
  ELSE (IF Head(meta).own THEN <<Head(meta)>> ELSE <<>>) \o OwnEntries(Tail(meta))

\* C11: the payload of a message has no attachments field when the metadata
\* has no entry of its own, and otherwise exactly one attachment per entry, in
\* order, with text '<key>: <util.inspect of the value>', all of one color:
\* 'danger' for 'error', 'warning' for 'warn', 'good' for any other level.
C11_Attachments ==
  \A i \in 1..Len(reqs) :
    LET r == reqs[i]
        own == OwnEntries(r.meta)
        color == IF r.level = "error" THEN "danger"
                 ELSE IF r.level = "warn" THEN "warning" ELSE "good"
    IN  IF own = <<>>
        THEN "attachments" \notin r.payload.fields
        ELSE /\ "attachments" \in r.payload.fields
             /\ Len(r.payload.attachments) = Len(own)
             /\ \A j \in 1..Len(own) :
                  /\ r.payload.attachments[j].text =
                       <<own[j].key, ": ">> \o UtilInspect(own[j].value)
                  /\ r.payload.attachments[j].color = color

\* an 'error' message with {user: 'alice'}: one 'danger' attachment
C11_Witness ==
  \E i \in 1..Len(reqs) :
    /\ reqs[i].level = "error"
    /\ reqs[i].meta = <<MetaEntry("user", JsString(<<"alice">>), TRUE)>>
    /\ Len(reqs[i].payload.attachments) = 1
    /\ reqs[i].payload.attachments[1].color = "danger"
    /\ reqs[i].payload.attachments[1].text = <<"user", ": ", "'", "alice", "'">>

\* a log step: the requests started and the calls of incrementLimitSent made
\* by it are as many, and none when the limiter is exceeded
C13_Step ==
  /\ self'.numIncrements = Len(reqs')
  /\ (ncalls' = ncalls + 1) =>
       /\ self'.numIncrements - self.numIncrements = Len(reqs') - Len(reqs)
       /\ isRateLimitExceeded(self, now) => self'.numIncrements = self.numIncrements

\* C13: the calls of incrementLimitSent so far are as many as the requests
\* started so far, messages and discard notices alike; every log call makes
\* one per request it starts, and a call that discards makes none.
C13_OneIncrementPerSend == (self.numIncrements = Len(reqs)) /\ [][C13_Step]_vars

\* a discarded call, then a notice and a message: three requests, four calls
C13_Witness ==
  /\ ncalls = 4
  /\ Len(reqs) = 3
  /\ self.numIncrements = 3
  /\ \E i \in 1..Len(reqs) : reqs[i].level = "warn" /\ reqs[i].callback = Noop

\* C14: the fields of the limiter (limitSent, limitLastUpdate,
\* limitNumDiscarded) are changed only by log calls: a response, a chunk of its
\* body, its end, a failed connection and the passing of time leave them as
\* they are, so the limiter decides on the same state whatever the outcomes
\* and the order of the deliveries.
C14_OnlyLogChangesLimiter == [][ncalls' = ncalls => self' = self]_vars

\* a delivery has failed, another has died on a connection error, and a
\* message has been discarded
C14_Witness ==
  /\ lastCallback.err.t = "Error"
  /\ uncaught >= 1
  /\ self.limitNumDiscarded >= 1

\* a step changes limitNumDiscarded in one of two ways, both in a log call
C15_Step ==
  LET k == self.limitNumDiscarded
      exceeded == isRateLimitExceeded(self, now)
      first == Len(reqs) + 1
  IN  /\ self'.limitNumDiscarded \in Nat
      /\ self'.limitNumDiscarded # k =>
           /\ ncalls' = ncalls + 1
           /\ \/ exceeded /\ self'.limitNumDiscarded = k + 1
              \/ /\ ~exceeded
                 /\ k > 0
                 /\ self'.limitNumDiscarded = 0
                 /\ Len(reqs') >= first
                 /\ reqs'[first].level = "warn"
                 /\ reqs'[first].msg = DiscardText(k)
                 /\ reqs'[first].st = "inflight"
      /\ (ncalls' = ncalls + 1 /\ exceeded) => self'.limitNumDiscarded = k + 1
      /\ (ncalls' = ncalls + 1 /\ ~exceeded) => self'.limitNumDiscarded = 0

\* C15: limitNumDiscarded is a natural number that changes in two ways only:
\* a log call that finds the limiter exceeded adds 1; a log call that finds it
\* not exceeded with a count k > 0 sets it to 0 and has started the notice
\* naming k in the same call. It is reset while that notice is still in
\* flight, whatever becomes of it.
C15_DiscardCounter == (self.limitNumDiscarded = 0) /\ [][C15_Step]_vars

\* two messages were discarded, the counter is back at 0 and the notice
\* naming 2 is in flight
C15_Witness ==
  /\ self.limitNumDiscarded = 0
  /\ \E i \in 1..Len(reqs) :
       /\ reqs[i].msg = DiscardText(2)
       /\ reqs[i].st = "inflight"

\* the discard notices among the requests rs: sent with the handler noop
Notices(rs) == {i \in 1..Len(rs) : rs[i].callback = Noop /\ rs[i].level = "warn"}
NoticesInFlight == {i \in Notices(reqs) : reqs[i].st \in {"inflight", "response"}}

\* C16 (as claimed): at most one discard notice is in flight at any moment
C16_AtMostOneNoticeInFlight == Cardinality(NoticesInFlight) <= 1

\* a step starts at most one discard notice, and starts one exactly when it
\* is a log call that finds the limiter not exceeded and the counter positive
C16_Step ==
  LET started == Notices(reqs') \ Notices(reqs)
  IN  /\ Cardinality(started) <= 1
      /\ Cardinality(started) = 1 <=>
           /\ ncalls' = ncalls + 1
           /\ ~isRateLimitExceeded(self, now)
           /\ self.limitNumDiscarded > 0

\* C16 (amended): a log call starts at most one discard notice, and whether
\* it starts one depends on the limiter and the counter only, not on the
\* notices still in flight: as many notices may be in flight as were started.
C16_OneNoticePerLogCall == [][C16_Step]_vars

\* two discard notices in flight at once
C16_Witness == Cardinality(NoticesInFlight) >= 2

\* a log call of the steady stream is accepted
C17_Step ==
  (Finite(self) /\ ncalls' = ncalls + 1) =>
    /\ ~isRateLimitExceeded(self, now)
    /\ Len(reqs') = Len(reqs) + 1
    /\ reqs'[Len(reqs')].callback = ncalls + 1
    /\ self'.limitNumDiscarded = 0

\* C17: with a finite rate, when log is called at intervals of exactly one
\* tick (1/limitPerSecond seconds) from a fresh sink, the limiter is not
\* exceeded at any of the calls: each call sends its message, none is
\* discarded and limitNumDiscarded stays 0.
C17_SteadyStreamNeverDiscarded ==
  (self.limitNumDiscarded = 0) /\ [][C17_Step]_vars

\* four calls one tick apart with the smallest budget, all sent
C17_Witness ==
  /\ Finite(self)
  /\ Budget(self) = Rat(1, 2)
  /\ ncalls >= 4
  /\ Len(reqs) = ncalls
  /\ self.limitNumDiscarded = 0

\* the count a discard notice names, read back from its text
NamedCount(msg) == CHOOSE n \in 0..ncalls : ToString(n) = msg[2]

\* the sum of the counts named by the discard notices among rs[1..n]
RECURSIVE NamedTotal(_, _)
NamedTotal(rs, n) ==
  IF n = 0 THEN 0
  ELSE NamedTotal(rs, n - 1) +
       (IF rs[n].callback = Noop /\ rs[n].level = "warn" THEN NamedCount(rs[n].msg) ELSE 0)

\* the messages of the callers among the requests rs
RealMessages(rs) == {i \in 1..Len(rs) : rs[i].callback # Noop}

\* the books balance
C18_Balance ==
  /\ Cardinality(DiscardedCalls) = NamedTotal(reqs, Len(reqs)) + self.limitNumDiscarded
  /\ ncalls = Cardinality(DiscardedCalls) + Cardinality(RealMessages(reqs))

\* a log call that finds the limiter exceeded adds one to what is reported or
\* waiting to be reported and sends no message; any other log call adds
\* nothing to it and sends one message
C18_Step ==
  LET owed == NamedTotal(reqs, Len(reqs)) + self.limitNumDiscarded
      owedAfter == NamedTotal(reqs', Len(reqs')) + self'.limitNumDiscarded
      sent == Cardinality(RealMessages(reqs))
      sentAfter == Cardinality(RealMessages(reqs'))
  IN  IF ncalls' = ncalls + 1
      THEN IF isRateLimitExceeded(self, now)
           THEN owedAfter = owed + 1 /\ sentAfter = sent
           ELSE owedAfter = owed /\ sentAfter = sent + 1
      ELSE owedAfter = owed /\ sentAfter = sent

\* C18: in every reachable state the log calls discarded so far are as many
\* as the counts named by all discard notices sent so far plus
\* limitNumDiscarded, and the log calls made so far are as many as the
\* discarded ones plus the messages sent; each log call adds to exactly one
\* side.
C18_NoDiscardLostOrDoubled == []C18_Balance /\ [][C18_Step]_vars

\* three discarded calls reported by two notices (2 and 1), none waiting
C18_Witness ==
  /\ Cardinality(DiscardedCalls) = 3
  /\ self.limitNumDiscarded = 0
  /\ Cardinality(Notices(reqs)) = 2
  /\ \E i \in Notices(reqs) : NamedCount(reqs[i].msg) = 2

\* the stored score is at most the budget + 2
C19_Bound == Finite(self) => Le(self.limitSent, Add(Budget(self), Num(2)))

\* a log call accepted with no discard notice to send stores at most budget + 1
C19_Step ==
  ( /\ Finite(self)
    /\ ncalls' = ncalls + 1
    /\ ~isRateLimitExceeded(self, now)
    /\ self.limitNumDiscarded = 0 ) =>
    Le(self'.limitSent, Add(Budget(self), Num(1)))

\* C19: with a finite rate, limitSent is at most
\* limitPerSecond * limitWindowSeconds + 2 in every reachable state, and a log
\* call accepted while no discard is waiting to be reported leaves it at most
\* at the budget + 1.
C19_ScoreAtMostBudgetPlusTwo == []C19_Bound /\ [][C19_Step]_vars

\* a notice and a message sent by one call: the score is above budget + 1
C19_Witness ==
  /\ Finite(self)
  /\ Gt(self.limitSent, Add(Budget(self), Num(1)))
  /\ Notices(reqs) # {}

\* an exceeded limiter of a finite rate is, later, not exceeded
C20_Recovers ==
  (Finite(self) /\ isRateLimitExceeded(self, now)) ~> ~isRateLimitExceeded(self, now)

\* a log call that finds the limiter not exceeded first sends the notice
\* naming the calls discarded and not named by a notice yet, if there are any
C20_Step ==
  LET unreported == Cardinality(DiscardedCalls) - NamedTotal(reqs, Len(reqs))
  IN  (ncalls' = ncalls + 1 /\ ~isRateLimitExceeded(self, now) /\ unreported > 0) =>
        /\ Len(reqs') = Len(reqs) + 2
        /\ reqs'[Len(reqs) + 1].callback = Noop
        /\ reqs'[Len(reqs) + 1].msg = DiscardText(unreported)
        /\ Cardinality(DiscardedCalls') = NamedTotal(reqs', Len(reqs'))

\* C20: with a finite rate the limiter does not lock: from every reachable
\* state in which it is exceeded, as time keeps advancing, it comes to be not
\* exceeded, whatever calls are discarded meanwhile; and the first log call
\* made then sends a discard notice naming every message discarded since the
\* previous notice.
C20_NeverLocksAndReports == C20_Recovers /\ [][C20_Step]_vars

\* the limiter was exceeded, recovered, reported its discards in a notice,
\* was exceeded again by that call and has recovered again
C20_Witness ==
  /\ Finite(self)
  /\ Notices(reqs) # {}
  /\ now > self.limitLastUpdate
  /\ ~isRateLimitExceeded(self, now)
  /\ isRateLimitExceeded(self, self.limitLastUpdate)

====
